---------------------------- MODULE Spec2Model ----------------------------
(***************************************************************************)
(* Model of the Fluke 884x continuity-buzzer firmware                      *)
(* (src/firmware: gpio_config.py, keypad.py, decode.py, pwm.py, main.py).  *)
(*                                                                         *)
(* A 32-bit port word is modelled as the set of its set bit numbers        *)
(* (a subset of 0..31): & is \cap, | is \cup, and ~ followed by the        *)
(* truncation of a mem32 store (or by a mask) is the complement in 0..31.  *)
(* Small integers (7-bit column vectors, digits) stay integers.            *)
(***************************************************************************)
EXTENDS Integers, Sequences, FiniteSets, TLC

VARIABLES
    t_fn, t_arg, t_mid, t_ret,       \* unit harness: function, input, intermediate, result
    gpio_in,                         \* mem32[GPIO_IN_ADDR]: the live port, set by the meter
    gpio_out,                        \* mem32[GPIO_OUT_ADDR]: output register (bit 26 is rl_dir)
    gpio_oe,                         \* mem32[GPIO_OE_ADDR]: output enables
    k_op,                            \* last keypad driver call: << name, strobe_number, value >>
    k_pin,                           \* the port value that call read
    last_gpios,                      \* keypad.last_gpios, indexed group + 1
    pressed_keys,                    \* keypad.pressed_keys, pairs << group, bit_number >>
    s_args,                          \* column vectors decoded from the last interpret() argument
    s_ret,                           \* what the last interpret() returned
    s_tick,                          \* flips at every interpret() call
    pc,                              \* where main_loop and its generator are
    digit_number,                    \* read_all_digit_gpios_into: the slot being sampled
    gpio_values,                     \* main_loop's gpio_values array, indexed slot + 1
    digits,                          \* main_loop's digits array, indexed slot + 1
    specials,                        \* main_loop's specials set
    decimal_point_position,          \* the generator's local
    reading,                         \* the value yielded: sign * mag / 10^exp
    cont,                            \* main_loop's cont
    pwm_en,                          \* mem32[PWM_EN]: slice enable bits
    printed,                         \* what print_result last wrote
    h_phase,                         \* the digit position the meter's multiplexer is at
    h_dead,                          \* the digit strobe that has failed for good (-1: none)
    h_moved,                         \* the meter stepped on since the sampler saw its strobe
    w_log,                           \* the slots written by the current sampler call, in order
    w_seen                           \* the slots whose strobe a wait-loop read of the current call showed asserted

unitVars == << t_fn, t_arg, t_mid, t_ret >>
portVars == << gpio_in, gpio_out, gpio_oe >>
driveVars == << k_op, k_pin >>
scanVars == << last_gpios, pressed_keys, s_args, s_ret, s_tick >>
loopVars == << pc, digit_number, gpio_values, digits, specials, decimal_point_position,
              reading, cont, pwm_en, printed >>
sampleVars == << h_phase, h_dead, h_moved, w_log, w_seen >>
vars == << t_fn, t_arg, t_mid, t_ret, gpio_in, gpio_out, gpio_oe, k_op, k_pin,
           last_gpios, pressed_keys, s_args, s_ret, s_tick,
           pc, digit_number, gpio_values, digits, specials, decimal_point_position,
           reading, cont, pwm_en, printed, h_phase, h_dead, h_moved, w_log, w_seen >>

---------------------------------------------------------------------------
(* gpio_config.py: pin numbers *)
PIN_RL3 == 0
PIN_RL5 == 1
PIN_RL2 == 2
PIN_RL4 == 3
PIN_RL6 == 4
PIN_G5 == 5
PIN_RL1 == 6
PIN_G7 == 7
PIN_RL0 == 8
PIN_G6 == 9
PIN_G2 == 10
PIN_PDP == 11
PIN_G3 == 12
PIN_PS1 == 13
PIN_G4 == 14
PIN_PD == 15
PIN_PC == 16
PIN_PG == 17
PIN_PA == 18
PIN_PS3 == 19
PIN_PB == 20
PIN_PS2 == 21
PIN_PF == 22
PIN_G0 == 23
PIN_G1 == 24
PIN_PE == 25
PIN_RL_DIR == 26
PIN_RL_OE_n == 27
PIN_BUZZER1 == 28
PIN_BUZZER2 == 29

\* width of a mem32 word
WordBits == 32
AllBits == 0 .. (WordBits - 1)

\* BIT(n) = 1 << n
BIT(n) == {n}

\* ~w truncated to the 32 bits of a port word
Not32(w) == AllBits \ w

\* the names keypad.py and decode.py import as bit masks
RL0 == BIT(PIN_RL0)
RL1 == BIT(PIN_RL1)
RL2 == BIT(PIN_RL2)
RL3 == BIT(PIN_RL3)
RL4 == BIT(PIN_RL4)
RL5 == BIT(PIN_RL5)
RL6 == BIT(PIN_RL6)
G0 == BIT(PIN_G0)
G1 == BIT(PIN_G1)
G2 == BIT(PIN_G2)
G3 == BIT(PIN_G3)
G4 == BIT(PIN_G4)
G5 == BIT(PIN_G5)
G6 == BIT(PIN_G6)
G7 == BIT(PIN_G7)
PA == BIT(PIN_PA)
PB == BIT(PIN_PB)
PC == BIT(PIN_PC)
PD == BIT(PIN_PD)
PE == BIT(PIN_PE)
PF == BIT(PIN_PF)
PG == BIT(PIN_PG)
PDP == BIT(PIN_PDP)
PS1 == BIT(PIN_PS1)
PS2 == BIT(PIN_PS2)
PS3 == BIT(PIN_PS3)

RL_MASK == RL0 \cup RL1 \cup RL2 \cup RL3 \cup RL4 \cup RL5 \cup RL6
G_MASK == G0 \cup G1 \cup G2
SEGMENT_MASK == PA \cup PB \cup PC \cup PD \cup PE \cup PF \cup PG
DIGIT_MASK == G0 \cup G1 \cup G2 \cup G3 \cup G4 \cup G5 \cup G6 \cup G7

---------------------------------------------------------------------------
(* 7-bit column vectors are integers 0..127 *)
ColBits == 0 .. 6
Pow2(n) == 2 ^ n
TestBit(v, c) == (v \div Pow2(c)) % 2 = 1
\* a & ~b on 7-bit integers, bit by bit from bit c up
RECURSIVE AndNotFrom(_, _, _)
AndNotFrom(a, b, c) ==
    IF c > 6 THEN 0
    ELSE (IF TestBit(a, c) /\ ~TestBit(b, c) THEN Pow2(c) ELSE 0) + AndNotFrom(a, b, c + 1)
\* the same, tabulated once for all pairs of 7-bit integers
AndNotTable == [ a \in 0 .. 127 |-> [ b \in 0 .. 127 |-> AndNotFrom(a, b, 0) ] ]
AndNot7(a, b) == AndNotTable[a][b]

\* keypad.py rl_decode: masked port reading -> 7-bit number (active low);
\* retval starts at 0 and each test ORs in its own bit, so the ORs add up
rl_decode(value) ==
    LET inv == RL_MASK \ value      \* ~value & RL_MASK
    IN  (IF inv \cap RL0 # {} THEN 1 ELSE 0)
      + (IF inv \cap RL1 # {} THEN 2 ELSE 0)
      + (IF inv \cap RL2 # {} THEN 4 ELSE 0)
      + (IF inv \cap RL3 # {} THEN 8 ELSE 0)
      + (IF inv \cap RL4 # {} THEN 16 ELSE 0)
      + (IF inv \cap RL5 # {} THEN 32 ELSE 0)
      + (IF inv \cap RL6 # {} THEN 64 ELSE 0)

\* the bits rl_encode accumulates in retval before the inversion
rl_bits(value) ==
    (IF TestBit(value, 0) THEN RL0 ELSE {}) \cup
    (IF TestBit(value, 1) THEN RL1 ELSE {}) \cup
    (IF TestBit(value, 2) THEN RL2 ELSE {}) \cup
    (IF TestBit(value, 3) THEN RL3 ELSE {}) \cup
    (IF TestBit(value, 4) THEN RL4 ELSE {}) \cup
    (IF TestBit(value, 5) THEN RL5 ELSE {}) \cup
    (IF TestBit(value, 6) THEN RL6 ELSE {})

\* faulty variant: rl_encode without the active-low inversion
rl_encode_noinv(value) == rl_bits(value)

\* keypad.py rl_encode: 7-bit number -> port word, ~retval as a 32-bit word
rl_encode(value) == Not32(rl_bits(value))

\* keypad.py g_decode: strobe number 1..3, or 0 when not exactly one of G0..G2
g_decode(value) ==
    LET v == value \cap G_MASK
    IN  IF v = G0 THEN 1
        ELSE IF v = G1 THEN 2
        ELSE IF v = G2 THEN 3
        ELSE 0

---------------------------------------------------------------------------
(* decode.py: digit tables *)
\* SEGMENT_LOOKUP as a list indexed by digit + 1
SEGMENT_LOOKUP ==
    << PA \cup PB \cup PC \cup PD \cup PE \cup PF,
       PB \cup PC,
       PA \cup PB \cup PD \cup PE \cup PG,
       PA \cup PB \cup PC \cup PD \cup PG,
       PB \cup PC \cup PF \cup PG,
       PA \cup PC \cup PD \cup PF \cup PG,
       PA \cup PC \cup PD \cup PE \cup PF \cup PG,
       PA \cup PB \cup PC,
       PA \cup PB \cup PC \cup PD \cup PE \cup PF \cup PG,
       PA \cup PB \cup PC \cup PF \cup PG >>

\* dict.get(key, default) on SEGMENT_LOOKUP
SegmentGet(key, default) ==
    IF \E d \in 0 .. 9 : SEGMENT_LOOKUP[d + 1] = key
    THEN CHOOSE d \in 0 .. 9 : SEGMENT_LOOKUP[d + 1] = key
    ELSE default

\* dict.get(key, default) on SEGMENT_LOOKUP_DIGIT_1
SegmentGetDigit1(key, default) ==
    IF key = PA \cup PB \cup PC THEN 1
    ELSE IF key = PA \cup PC THEN 1
    ELSE IF key = PB \cup PC THEN 0
    ELSE IF key = PC THEN 0
    ELSE default

\* dict.get(key, default) on SIGN_LOOKUP_DIGIT_1
SignGet(key, default) ==
    IF key = PB \cup PC THEN 1
    ELSE IF key = PC THEN -1
    ELSE default

\* faulty variant: the lookup made on the unmasked port reading
read_digit_unmasked(dn, v) ==
    IF dn = 1 THEN SegmentGetDigit1(v, 0) ELSE SegmentGet(v, 0)

\* decode.py read_digit
read_digit(dn, v) ==
    LET segment_lines == v \cap SEGMENT_MASK
    IN  IF dn = 1
        THEN SegmentGetDigit1(segment_lines, 0)
        ELSE SegmentGet(segment_lines, 0)

---------------------------------------------------------------------------
(* gpio_config.py / machine.Pin: the port registers *)

\* machine.Pin(n, Pin.OUT).value(v): the pin's bit of the output register
PinValue(out, n, v) == IF v = 1 THEN out \cup BIT(n) ELSE out \ BIT(n)

\* the registers after gpio_config.initialize_pins(): pins 0..25 inputs,
\* RL_DIR out high, RL_OE_n out low, both buzzer pins out low
PortInit ==
    /\ gpio_out = BIT(PIN_RL_DIR)
    /\ gpio_oe = BIT(PIN_RL_DIR) \cup BIT(PIN_RL_OE_n) \cup BIT(PIN_BUZZER1) \cup BIT(PIN_BUZZER2)
    /\ gpio_in = RL_MASK \cup BIT(PIN_RL_DIR)

\* gpio_config.read_gpio_pins
read_gpio_pins == gpio_in

---------------------------------------------------------------------------
(* keypad.py: drive / release, with the meter cycling its strobes *)

\* most keys held down at once in the snapshots handed to interpret()
MaxKeysDown == 2
\* most columns set in a vector handed to drive()
MaxDriven == 1

RECURSIVE PopCount(_, _)
PopCount(v, c) == IF c > 6 THEN 0 ELSE (IF TestBit(v, c) THEN 1 ELSE 0) + PopCount(v, c + 1)

ColumnVectors == { v \in 0 .. 127 : PopCount(v, 0) <= MaxKeysDown }
DrivenVectors == { v \in 0 .. 127 : PopCount(v, 0) <= MaxDriven }

\* what the meter can put on the port: a strobe pattern, and the other lines
HostStrobes == { {}, G0, G1, G2, G0 \cup G1 }
HostPorts ==
    { s \cup RL_MASK \cup BIT(PIN_RL_DIR) : s \in HostStrobes }
       \cup { G1 \cup (RL_MASK \ RL0) \cup BIT(PIN_RL_DIR) \cup PB \cup PC \cup G3 }

DriveInit ==
    /\ k_op = << "none", 0, 0 >>
    /\ k_pin = {}

\* the meter changes its lines at any time
HostStep ==
    /\ \E p \in HostPorts : gpio_in' = p
    /\ gpio_in' # gpio_in
    /\ UNCHANGED << gpio_out, gpio_oe, driveVars, unitVars, scanVars, loopVars, sampleVars >>

\* gpio_config.write_gpio_pins(mask, value), after rl_dir.value(0):
\* GPIO_OE_SET = mask, then the whole GPIO_OUT register = value
WriteAfterDir(out, oe, mask, value) ==
    << value \cap AllBits, oe \cup mask >>

\* the registers << gpio_out, gpio_oe >> after drive(strobe_number, value)
\* has read pin_value from the port
drive_regs(pin_value, strobe_number, value, out, oe) ==
    LET strobe_value == g_decode(pin_value)
        rl_value == rl_encode(value)
        new_pin_value == (pin_value \cap Not32(RL_MASK)) \cup rl_value
    IN  IF strobe_value # strobe_number
        THEN << out, oe >>
        ELSE WriteAfterDir(PinValue(out, PIN_RL_DIR, 0), oe, RL_MASK, new_pin_value)

\* faulty variant: the strobe check made on the port value read by the previous call
drive_cached(strobe_number, value) ==
    LET regs == drive_regs(k_pin, strobe_number, value, gpio_out, gpio_oe)
    IN  /\ gpio_out' = regs[1]
        /\ gpio_oe' = regs[2]
        /\ k_op' = << "drive", strobe_number, value >>
        /\ k_pin' = gpio_in
        /\ UNCHANGED gpio_in

\* keypad.drive(strobe_number, value)
drive(strobe_number, value) ==
    LET pin_value == read_gpio_pins
        regs == drive_regs(pin_value, strobe_number, value, gpio_out, gpio_oe)
    IN  /\ gpio_out' = regs[1]
        /\ gpio_oe' = regs[2]
        /\ k_op' = << "drive", strobe_number, value >>
        /\ k_pin' = pin_value
        /\ UNCHANGED gpio_in

\* faulty variant: release without dont_write_gpio_pins(RL_MASK)
release_keep_oe ==
    /\ gpio_out' = PinValue(gpio_out, PIN_RL_DIR, 1)
    /\ gpio_oe' = gpio_oe
    /\ k_op' = << "release", 0, 0 >>
    /\ UNCHANGED << gpio_in, k_pin >>

\* keypad.release(): rl_dir.value(1), then dont_write_gpio_pins(RL_MASK)
release ==
    /\ gpio_out' = PinValue(gpio_out, PIN_RL_DIR, 1)
    /\ gpio_oe' = gpio_oe \ RL_MASK
    /\ k_op' = << "release", 0, 0 >>
    /\ UNCHANGED << gpio_in, k_pin >>

\* strobe number is 1-3
Drive ==
    /\ \E g \in 1 .. 3 : \E v \in DrivenVectors : drive(g, v)
    /\ UNCHANGED << unitVars, scanVars, loopVars, sampleVars >>

Release == release /\ UNCHANGED << unitVars, scanVars, loopVars, sampleVars >>

DriveNext == HostStep \/ Drive \/ Release


---------------------------------------------------------------------------
(* keypad.py: interpret *)

\* keypad.tuples(group, value): the pairs it yields
TuplesTable ==
    [ group \in 0 .. 2 |->
        [ value \in 0 .. 127 |-> { << group, b >> : b \in { c \in ColBits : TestBit(value, c) } } ] ]
tuples(group, value) == TuplesTable[group][value]

ScanInit ==
    /\ last_gpios = << 0, 0, 0 >>
    /\ pressed_keys = {}
    /\ s_args = << 0, 0, 0 >>
    /\ s_ret = FALSE
    /\ s_tick = 0

\* faulty variant: the loop body without "last_gpios[group] = decoded"
interpret_group_forget(group, decoded, prior, keys) ==
    IF decoded # prior
    THEN [ changed |-> TRUE,
           keys |-> (keys \cup tuples(group, AndNot7(decoded, prior)))
                       \ tuples(group, AndNot7(prior, decoded)),
           last |-> prior ]
    ELSE [ changed |-> FALSE, keys |-> keys, last |-> prior ]

\* one pass of interpret()'s loop body for a group: whether it sets changed,
\* pressed_keys after it, and last_gpios[group] after it
interpret_group(group, decoded, prior, keys) ==
    IF decoded # prior
    THEN [ changed |-> TRUE,
           keys |-> (keys \cup tuples(group, AndNot7(decoded, prior)))
                       \ tuples(group, AndNot7(prior, decoded)),
           last |-> decoded ]
    ELSE [ changed |-> FALSE, keys |-> keys, last |-> prior ]

\* keypad.interpret(gpio_values): for group in range(3)
interpret(gv) ==
    \E d0 \in { rl_decode(gv[1]) } :
    \E d1 \in { rl_decode(gv[2]) } :
    \E d2 \in { rl_decode(gv[3]) } :
    \E g0 \in { interpret_group(0, d0, last_gpios[1], pressed_keys) } :
    \E g1 \in { interpret_group(1, d1, last_gpios[2], g0.keys) } :
    \E g2 \in { interpret_group(2, d2, last_gpios[3], g1.keys) } :
        /\ pressed_keys' = g2.keys
        /\ last_gpios' = << g0.last, g1.last, g2.last >>
        /\ s_ret' = (g0.changed \/ g1.changed \/ g2.changed)
        /\ s_args' = << d0, d1, d2 >>
        /\ s_tick' = 1 - s_tick

\* the other lines of a snapshot taken while strobe `group` is asserted: the
\* strobe alone (group 0), every other line high too (group 1), the strobe
\* and the segment lines of the digit shown with it (group 2)
SnapshotOthers(group) ==
    IF group = 0 THEN G0
    ELSE IF group = 1 THEN Not32(RL_MASK) \ (G0 \cup G2)
    ELSE G2 \cup PB \cup PC \cup PDP

\* a snapshot taken while strobe `group` is asserted and the columns v are down
Snapshot(group, v) == (rl_encode(v) \cap RL_MASK) \cup SnapshotOthers(group)

\* the sets of at most n keys << group, column >> held down at once
RECURSIVE KeySets(_)
KeySets(n) ==
    IF n = 0 THEN { {} }
    ELSE LET smaller == KeySets(n - 1)
         IN  smaller \cup { s \cup { k } : s \in smaller, k \in (0 .. 2) \X ColBits }

\* the column vector of a group, as the meter's matrix shows the keys held down
RECURSIVE ColumnsOf(_, _, _)
ColumnsOf(keys, group, c) ==
    IF c > 6 THEN 0
    ELSE (IF << group, c >> \in keys THEN Pow2(c) ELSE 0) + ColumnsOf(keys, group, c + 1)

KeyStates ==
    { << ColumnsOf(ks, 0, 0), ColumnsOf(ks, 1, 0), ColumnsOf(ks, 2, 0) >> :
        ks \in KeySets(MaxKeysDown) }

\* the snapshot triples handed to interpret()
ScanInputs ==
    { << Snapshot(0, w[1]), Snapshot(1, w[2]), Snapshot(2, w[3]) >> : w \in KeyStates }

Interpret ==
    /\ \E gv \in ScanInputs : interpret(gv)
    /\ UNCHANGED << unitVars, portVars, driveVars, loopVars, sampleVars >>

ScanNext == Interpret


---------------------------------------------------------------------------
(* decode.py: decimal point, special segments, units *)

\* faulty variant: read_dp without the test 1 <= digit_number <= 6
read_dp_anywhere(dn, v) == (v \cap PDP) = PDP

\* decode.py read_dp
read_dp(dn, v) ==
    IF 1 <= dn /\ dn <= 6 THEN (v \cap PDP) = PDP ELSE FALSE

\* SPECIAL_LOOKUP[dn][0]: the mask of a digit's special segments (0 for no entry)
SpecialMask(dn) ==
    CASE dn = 0 -> PA \cup PB \cup PC \cup PD \cup PS1 \cup PS2 \cup PS3
      [] dn = 1 -> PS1 \cup PS2 \cup PS3
      [] dn \in 2 .. 5 -> PS1
      [] dn = 6 -> PS1 \cup PS2 \cup PS3
      [] dn = 7 -> PA \cup PB \cup PC \cup PS1 \cup PS2 \cup PS3 \cup PDP
      [] OTHER -> {}

\* SPECIAL_LOOKUP[dn][1:]: the (pin value, segment name) pairs of a digit;
\* "OHM" stands for the source's omega token
SpecialPatterns(dn) ==
    CASE dn = 0 -> { << PA, "EX" >>, << PB, "TRIG" >>, << PC, "TEST" >>, << PD, "REMOTE" >>,
                     << PS1, "TALK" >>, << PS2, "LISTEN" >>, << PS3, "SRQ" >> }
      [] dn = 1 -> { << PS1, "S" >>, << PS2, "M" >>, << PS3, "F" >> }
      [] dn = 2 -> { << PS1, "OVER" >> }
      [] dn = 3 -> { << PS1, "ERROR" >> }
      [] dn = 4 -> { << PS1, "CAL" >> }
      [] dn = 5 -> { << PS1, "AUTO" >> }
      [] dn = 6 -> { << PS1, "OFFSET" >>, << PS2, "m" >>, << PS3, "V" >> }
      [] dn = 7 -> { << PA, "mA" >>, << PB, "DC" >>, << PC, "AC" >>, << PS1, "M" >>,
                     << PS2, "k" >>, << PS3, "OHM" >>, << PDP, "4 WIRE" >> }
      [] OTHER -> {}

\* decode.py read_specials
read_specials(dn, v) ==
    LET smask == SpecialMask(dn)
        segment_lines == v \cap smask
    IN  IF smask = {} THEN {}
        ELSE { pat[2] : pat \in { q \in SpecialPatterns(dn) : segment_lines \cap q[1] = q[1] } }

\* decode.py FORMAT_LOOKUP, in order
FORMAT_LOOKUP ==
    << << { "m", "V", "DC" }, "mV DC" >>,
       << { "m", "V", "AC" }, "mV AC" >>,
       << { "V", "DC" }, "V DC" >>,
       << { "V", "AC" }, "V AC" >>,
       << { "k", "OHM" }, "kOHM" >>,
       << { "M", "OHM" }, "MOHM" >>,
       << { "OHM" }, "OHM" >>,
       << { "mA", "DC" }, "mA DC" >>,
       << { "mA", "AC" }, "mA AC" >> >>

\* decode.py format_specials: the first rule whose tokens are all there, else None
format_specials(sp) ==
    LET hits == { i \in 1 .. Len(FORMAT_LOOKUP) : FORMAT_LOOKUP[i][1] \subseteq sp }
    IN  IF hits = {} THEN "None"
        ELSE FORMAT_LOOKUP[CHOOSE i \in hits : \A j \in hits : i <= j][2]

---------------------------------------------------------------------------
(* decode.py: the reading *)

Pow10(n) == 10 ^ n
Abs(x) == IF x < 0 THEN -x ELSE x

\* faulty variant: the loop running on to position 7, for digit_number in range(first, 8)
RECURSIVE FullNumberTo7(_, _, _)
FullNumberTo7(dg, dn, full_number) ==
    IF dn > 7 THEN full_number
    ELSE FullNumberTo7(dg, dn + 1, (full_number + Abs(dg[dn + 1])) * 10)

\* make_float's loop: for digit_number in range(first, 7):
\* full_number += abs(digits[digit_number]); full_number *= 10
RECURSIVE FullNumber(_, _, _)
FullNumber(dg, dn, full_number) ==
    IF dn > 6 THEN full_number
    ELSE FullNumber(dg, dn + 1, (full_number + Abs(dg[dn + 1])) * 10)

\* faulty variant: make_float dividing by 10 ** (6 - decimal_point_position)
make_float_scale6(dg, dpp, sign) ==
    [ sign |-> sign, mag |-> FullNumber(dg, 1, 0), exp |-> 6 - dpp ]

\* decode.py make_float: full_number / 10 ** (7 - decimal_point_position) * sign,
\* kept as the decimal fraction sign * mag / 10^exp
make_float(dg, dpp, sign) ==
    [ sign |-> sign, mag |-> FullNumber(dg, 1, 0), exp |-> 7 - dpp ]

\* the last digit_number in 0..7, from dn up, for which read_dp holds; else dpp
RECURSIVE LastDp(_, _, _)
LastDp(gv, dn, dpp) ==
    IF dn > 7 THEN dpp
    ELSE LastDp(gv, dn + 1, IF read_dp(dn, gv[dn + 1]) THEN dn ELSE dpp)

\* read_all_digit_gpios: the decode loop over the eight values, the sign and
\* the reading; sp is the set as it is when the loop starts
decode_frame(gv, sp) ==
    LET dg == [ i \in 1 .. 8 |-> read_digit(i - 1, gv[i]) ]
        dpp == LastDp(gv, 0, 0)
        sign == SignGet(gv[2] \cap (PB \cup PC), 1)
    IN  [ digits |-> dg,
          dpp |-> dpp,
          specials |-> sp \cup UNION { read_specials(i - 1, gv[i]) : i \in 1 .. 8 },
          value |-> make_float(dg, dpp, sign) ]

\* decode.py _NO_CONTINUITY
NO_CONTINUITY == { "OVER", "ERROR", "CAL", "mA", "mV", "DC", "AC", "M", "k" }

\* decode.py _CONTINUITY_THRESHOLD = 10.0
CONTINUITY_THRESHOLD == 10

\* value <= _CONTINUITY_THRESHOLD for value = sign * mag / 10^exp
LeqThreshold(v) == v.sign * v.mag <= CONTINUITY_THRESHOLD * Pow10(v.exp)

\* decode.py has_continuity
has_continuity(v, sp) ==
    IF sp \cap NO_CONTINUITY # {} THEN FALSE ELSE LeqThreshold(v)

\* decode.py print_result: the line written
print_result(v, sp, c) ==
    IF "OVER" \in sp THEN << "OVER", format_specials(sp) >>
    ELSE IF "ERROR" \in sp THEN << "ERROR", v >>
    ELSE << "value", v, format_specials(sp), c >>

---------------------------------------------------------------------------
(* pwm.py *)

\* the functions pwm.py defines
PwmFunctions == { "initialize_pwm", "enable_pwm" }

\* pwm.enable_pwm(enable): slice 6 is bit 0x40 of PWM_EN
enable_pwm(en, enable) == IF enable THEN en \cup { 6 } ELSE en \ { 6 }

---------------------------------------------------------------------------
(* decode.py main_loop, with the meter's display sampled slot by slot *)

\* main_loop's arrays and set as created, pwm.initialize_pwm() done
LoopInit ==
    /\ pc = "resume"
    /\ digit_number = 0
    /\ gpio_values = << {}, {}, {}, {}, {}, {}, {}, {} >>
    /\ digits = << 0, 0, 0, 0, 0, 0, 0, 0 >>
    /\ specials = {}
    /\ decimal_point_position = 0
    /\ reading = [ sign |-> 1, mag |-> 0, exp |-> 7 ]
    /\ cont = FALSE
    /\ pwm_en = {}
    /\ printed = << >>

\* the meter's multiplexer at digit 0 and sound, no sampler call made yet
SampleInit ==
    /\ h_phase = 0
    /\ h_dead = -1
    /\ h_moved = FALSE
    /\ w_log = << >>
    /\ w_seen = {}

DIGIT_MASKS == << G0, G1, G2, G3, G4, G5, G6, G7 >>

\* what the port can show when slot dn is read, 200 us after strobe dn rose:
\* the strobe with the segment, decimal point and special lines of the digit
SlotPorts(dn) ==
    LET seg(d) == SEGMENT_LOOKUP[d + 1]
        lines ==
          CASE dn = 0 -> { {} }
            [] dn = 1 -> { PB \cup PC \cup PS1, PB \cup PC \cup PS2, PA \cup PC \cup PS3 }
            [] dn = 2 -> { seg(0), seg(5) \cup PDP, seg(0) \cup PS1 }
            [] dn = 3 -> { seg(0) \cup PDP, seg(1) \cup PS1 }
            [] dn = 4 -> { seg(0) }
            [] dn = 5 -> { seg(2) }
            [] dn = 6 -> { seg(3), seg(3) \cup PS3 }
            [] dn = 7 -> { PS3, PB, PS2 \cup PS3 }
    IN  { DIGIT_MASKS[dn + 1] \cup l : l \in lines }

\* faulty variant: the generator resumed without specials.clear()
Resume_keep ==
    /\ pc = "resume"
    /\ specials' = specials
    /\ decimal_point_position' = 0
    /\ digit_number' = 0
    /\ pc' = "sample"
    /\ w_log' = << >>
    /\ w_seen' = {}
    /\ UNCHANGED << gpio_values, digits, reading, cont, pwm_en, printed >>
    /\ UNCHANGED << unitVars, portVars, driveVars, scanVars, h_phase, h_dead, h_moved >>

\* the generator is resumed: specials.clear(), decimal_point_position = 0,
\* and read_all_digit_gpios_into starts at slot 0 with nothing written or seen
Resume ==
    /\ pc = "resume"
    /\ specials' = {}
    /\ decimal_point_position' = 0
    /\ digit_number' = 0
    /\ pc' = "sample"
    /\ w_log' = << >>
    /\ w_seen' = {}
    /\ UNCHANGED << gpio_values, digits, reading, cont, pwm_en, printed >>
    /\ UNCHANGED << unitVars, portVars, driveVars, scanVars, h_phase, h_dead, h_moved >>

\* read_all_digit_gpios_into, one slot: the strobe's bit is seen set, and after
\* the delay the port is read into the slot
SampleDigit ==
    /\ pc = "sample"
    /\ \E p \in SlotPorts(digit_number) :
          gpio_values' = [ gpio_values EXCEPT ![digit_number + 1] = p ]
    /\ IF digit_number = 7
       THEN pc' = "decode" /\ UNCHANGED digit_number
       ELSE digit_number' = digit_number + 1 /\ UNCHANGED pc
    /\ UNCHANGED << digits, specials, decimal_point_position, reading, cont, pwm_en, printed >>
    /\ UNCHANGED << unitVars, portVars, driveVars, scanVars, sampleVars >>

\* the decode loop of read_all_digit_gpios, up to the yield
Decode ==
    /\ pc = "decode"
    /\ \E r \in { decode_frame(gpio_values, specials) } :
          /\ digits' = r.digits
          /\ decimal_point_position' = r.dpp
          /\ specials' = r.specials
          /\ reading' = r.value
    /\ pc' = "verdict"
    /\ UNCHANGED << digit_number, gpio_values, cont, pwm_en, printed >>
    /\ UNCHANGED << unitVars, portVars, driveVars, scanVars, sampleVars >>

\* main_loop: cont = has_continuity(reading, specials)
Verdict ==
    /\ pc = "verdict"
    /\ cont' = has_continuity(reading, specials)
    /\ pc' = "buzzer"
    /\ UNCHANGED << digit_number, gpio_values, digits, specials, decimal_point_position,
                    reading, pwm_en, printed >>
    /\ UNCHANGED << unitVars, portVars, driveVars, scanVars, sampleVars >>

\* main_loop: pwm.enable_pwm() if cont else pwm.disable_pwm(); a name the pwm
\* module does not define raises AttributeError, which leaves main_loop
Buzzer ==
    /\ pc = "buzzer"
    /\ LET name == IF cont THEN "enable_pwm" ELSE "disable_pwm"
       IN  IF name \in PwmFunctions
           THEN /\ pwm_en' = enable_pwm(pwm_en, cont)
                /\ pc' = "print"
           ELSE /\ pc' = "error"
                /\ UNCHANGED pwm_en
    /\ UNCHANGED << digit_number, gpio_values, digits, specials, decimal_point_position,
                    reading, cont, printed >>
    /\ UNCHANGED << unitVars, portVars, driveVars, scanVars, sampleVars >>

\* main_loop: print_result(reading, specials, cont), then the next value is asked for
PrintResult ==
    /\ pc = "print"
    /\ printed' = print_result(reading, specials, cont)
    /\ pc' = "resume"
    /\ UNCHANGED << digit_number, gpio_values, digits, specials, decimal_point_position,
                    reading, cont, pwm_en >>
    /\ UNCHANGED << unitVars, portVars, driveVars, scanVars, sampleVars >>

LoopNext == Resume \/ SampleDigit \/ Decode \/ Verdict \/ Buzzer \/ PrintResult

---------------------------------------------------------------------------
(* decode.py read_all_digit_gpios_into against the live port: the meter     *)
(* multiplexes its eight digits in order, at its own pace                   *)

\* the segment and special lines the meter shows with each digit:
\* "+000.000", ohm
DisplayLines ==
    << {}, PB \cup PC, SEGMENT_LOOKUP[1], SEGMENT_LOOKUP[1] \cup PDP,
       SEGMENT_LOOKUP[1], SEGMENT_LOOKUP[1], SEGMENT_LOOKUP[1], PS3 >>

\* the port while the meter is at digit ph: the digit's strobe (unless that
\* strobe has failed), its lines, the keypad return lines idle high and RL_DIR
HostPort(ph, dead) ==
    (IF ph = dead THEN {} ELSE DIGIT_MASKS[ph + 1])
       \cup DisplayLines[ph + 1] \cup RL_MASK \cup BIT(PIN_RL_DIR)

\* the meter steps to its next digit; a strobe is high for 600 us and the
\* sampler's settling delay is 200 us, so the meter steps at most once
\* between the read that saw the strobe and the read that is stored
HostAdvance ==
    /\ pc = "settle" => ~h_moved
    /\ h_phase' = (h_phase + 1) % 8
    /\ gpio_in' = HostPort(h_phase', h_dead)
    /\ h_moved' = (pc = "settle")
    /\ UNCHANGED << gpio_out, gpio_oe, h_dead, w_log, w_seen >>
    /\ UNCHANGED << unitVars, driveVars, scanVars, loopVars >>

\* one digit strobe of the meter fails: from now on it is never asserted
HostFault ==
    /\ h_dead = -1
    /\ \E k \in 0 .. 7 :
          /\ h_dead' = k
          /\ gpio_in' = gpio_in \ DIGIT_MASKS[k + 1]
    /\ UNCHANGED << gpio_out, gpio_oe, h_phase, h_moved, w_log, w_seen >>
    /\ UNCHANGED << unitVars, driveVars, scanVars, loopVars >>

\* faulty variant: the wait ended by any digit strobe, port & DIGIT_MASK
strobe_seen_any(dn, port) == port \cap DIGIT_MASK # {}

\* the wait loop's exit test: not (read_gpio_pins() & digit_mask == 0)
strobe_seen(dn, port) == port \cap DIGIT_MASKS[dn + 1] # {}

\* read_all_digit_gpios_into, one pass of "while read_gpio_pins() & digit_mask == 0"
WaitStrobe ==
    /\ pc = "sample"
    /\ LET port == read_gpio_pins
       IN  /\ w_seen' = w_seen \cup { i \in { digit_number } : DIGIT_MASKS[i + 1] \subseteq port }
           /\ pc' = IF strobe_seen(digit_number, port) THEN "settle" ELSE "sample"
    /\ h_moved' = FALSE
    /\ UNCHANGED << digit_number, gpio_values, digits, specials, decimal_point_position,
                    reading, cont, pwm_en, printed >>
    /\ UNCHANGED << unitVars, portVars, driveVars, scanVars, h_phase, h_dead, w_log >>

\* read_all_digit_gpios_into, after sleep_us: arr[digit_number] = read_gpio_pins(),
\* then the next digit, or the return after the eighth
Capture ==
    /\ pc = "settle"
    /\ gpio_values' = [ gpio_values EXCEPT ![digit_number + 1] = read_gpio_pins ]
    /\ w_log' = Append(w_log, digit_number)
    /\ IF digit_number = 7
       THEN pc' = "decode" /\ UNCHANGED digit_number
       ELSE digit_number' = digit_number + 1 /\ pc' = "sample"
    /\ h_moved' = FALSE
    /\ UNCHANGED << digits, specials, decimal_point_position, reading, cont, pwm_en, printed >>
    /\ UNCHANGED << unitVars, portVars, driveVars, scanVars, h_phase, h_dead, w_seen >>

SampleNext ==
    HostAdvance \/ HostFault \/ Resume \/ WaitStrobe \/ Capture
       \/ Decode \/ Verdict \/ Buzzer \/ PrintResult

---------------------------------------------------------------------------
(* One decode pass over the frames of a numeric display: the state when    *)
(* read_all_digit_gpios_into returns in the first cycle                    *)

\* a position of 2..6 shows its own number or one of the next MaxShift digits
MaxShift == 1
\* most decimal-point bits asserted in one frame
MaxDp == 2

\* the segment lines position dn can show
SegChoices(dn) ==
    CASE dn = 1 -> { PA \cup PB \cup PC, PA \cup PC, PB \cup PC, PC, {} }
      [] dn \in 2 .. 6 -> { SEGMENT_LOOKUP[((dn + k) % 10) + 1] : k \in 0 .. MaxShift }
      [] OTHER -> { {}, SEGMENT_LOOKUP[9] }

\* the sets of at most n positions
RECURSIVE PositionSets(_)
PositionSets(n) ==
    IF n = 0 THEN { {} }
    ELSE LET smaller == PositionSets(n - 1)
         IN  smaller \cup { d \cup { i } : d \in smaller, i \in 0 .. 7 }

NumericFrames ==
    { [ i \in 1 .. 8 |->
          DIGIT_MASKS[i] \cup (IF i - 1 \in dp THEN PDP ELSE {})
             \cup (CASE i = 1 -> s07 [] i = 2 -> s1 [] i = 3 -> s2 [] i = 4 -> s3
                     [] i = 5 -> s4 [] i = 6 -> s5 [] i = 7 -> s6 [] OTHER -> s07) ] :
        s07 \in SegChoices(0), s1 \in SegChoices(1), s2 \in SegChoices(2),
        s3 \in SegChoices(3), s4 \in SegChoices(4), s5 \in SegChoices(5),
        s6 \in SegChoices(6), dp \in PositionSets(MaxDp) }

AssembleInit ==
    /\ pc = "decode"
    /\ digit_number = 7
    /\ gpio_values \in NumericFrames
    /\ digits = << 0, 0, 0, 0, 0, 0, 0, 0 >>
    /\ specials = {}
    /\ decimal_point_position = 0
    /\ reading = [ sign |-> 1, mag |-> 0, exp |-> 7 ]
    /\ cont = FALSE
    /\ pwm_en = {}
    /\ printed = << >>

AssembleNext == Decode \/ Verdict \/ Buzzer \/ PrintResult

---------------------------------------------------------------------------
(* Unit harness: the pure functions applied to inputs drawn in UnitInit *)

\* bits outside the segment mask that accompany a segment pattern in a reading
OutsideChoices ==
    { {}, PDP, Not32(SEGMENT_MASK), G2 \cup PS1 \cup RL0 }

\* the harness idle, in the specifications of the firmware itself
UnitIdle ==
    t_fn = "none" /\ t_arg = << >> /\ t_mid = {} /\ t_ret = -1

UnitInit ==
    /\ t_mid = {}
    /\ t_ret = -1
    /\ \/ /\ t_fn = "read_digit"
          /\ t_arg \in { << p, s \cup o >> : p \in 0 .. 7, s \in SUBSET SEGMENT_MASK,
                                             o \in OutsideChoices }
       \/ /\ t_fn = "rl_encode"
          /\ t_arg \in { << v >> : v \in 0 .. 127 }

CallReadDigit ==
    /\ t_fn = "read_digit"
    /\ t_ret = -1
    /\ t_ret' = read_digit(t_arg[1], t_arg[2])
    /\ UNCHANGED << t_fn, t_arg, t_mid, portVars, driveVars, scanVars, loopVars, sampleVars >>

CallRlEncode ==
    /\ t_fn = "rl_encode"
    /\ t_mid' = rl_encode(t_arg[1])
    /\ t_fn' = "rl_decode"
    /\ UNCHANGED << t_arg, t_ret, portVars, driveVars, scanVars, loopVars, sampleVars >>

CallRlDecode ==
    /\ t_fn = "rl_decode"
    /\ t_ret = -1
    /\ t_ret' = rl_decode(t_mid)
    /\ UNCHANGED << t_fn, t_arg, t_mid, portVars, driveVars, scanVars, loopVars, sampleVars >>

UnitNext == CallReadDigit \/ CallRlEncode \/ CallRlDecode


---------------------------------------------------------------------------
(* Specifications: the keypad driver under a cycling meter, the keypad     *)
(* scanner, and the unit harness                                           *)
DriveSpecInit == UnitIdle /\ PortInit /\ DriveInit /\ ScanInit /\ LoopInit /\ SampleInit
SpecDrive == DriveSpecInit /\ [][DriveNext]_vars

ScanSpecInit == UnitIdle /\ PortInit /\ DriveInit /\ ScanInit /\ LoopInit /\ SampleInit
SpecScan == ScanSpecInit /\ [][ScanNext]_vars

LoopSpecInit == UnitIdle /\ PortInit /\ DriveInit /\ ScanInit /\ LoopInit /\ SampleInit
SpecLoop == LoopSpecInit /\ [][LoopNext]_vars

AssembleSpecInit == UnitIdle /\ PortInit /\ DriveInit /\ ScanInit /\ AssembleInit /\ SampleInit
SpecAssemble == AssembleSpecInit /\ [][AssembleNext]_vars

UnitSpecInit == UnitInit /\ PortInit /\ DriveInit /\ ScanInit /\ LoopInit /\ SampleInit
SpecUnit == UnitSpecInit /\ [][UnitNext]_vars

SampleSpecInit == UnitIdle /\ PortInit /\ DriveInit /\ ScanInit /\ LoopInit /\ SampleInit
SpecSample == SampleSpecInit /\ [][SampleNext]_vars

---------------------------------------------------------------------------
\* a step of SpecDrive that is a call drive(g, v): the port is not the meter's
\* step, and the call recorded is a drive
IsDriveCall == gpio_in' = gpio_in /\ k_op'[1] = "drive"

\* C1: whenever the strobe group decoded from the live port read differs from
\* the requested group, drive() writes nothing: the output register (with the
\* bus-direction bit) and the output enables are unchanged. The comparison is
\* made on the port as it is at the call, not on an earlier read.
C1_NoWriteOnMismatch ==
    [][ (IsDriveCall /\ g_decode(gpio_in) # k_op'[2])
           => (gpio_out' = gpio_out /\ gpio_oe' = gpio_oe) ]_vars

\* drive(1, v) was called while the live strobe was group 2 (after an earlier
\* call had found its strobe), and nothing was written by it
C1_Witness ==
    /\ k_op[1] = "drive" /\ k_op[2] = 1
    /\ g_decode(k_pin) = 2
    /\ gpio_in = k_pin
    /\ gpio_oe \cap RL_MASK = {}
    /\ gpio_out = BIT(PIN_RL_DIR)

\* C2: when drive() acts on a matching strobe, only the bits RL0..RL6 of the
\* output register change, to the active-low encoding of the column vector;
\* every other bit of the register keeps its value.
C2_OnlyReturnBits ==
    [][ (IsDriveCall /\ g_decode(gpio_in) = k_op'[2])
           => /\ gpio_out' \ RL_MASK = gpio_out \ RL_MASK
              /\ gpio_out' \cap RL_MASK = rl_encode(k_op'[3]) \cap RL_MASK ]_vars

\* C3: an interpret() call whose snapshots decode to the same three column
\* vectors as the call before it returns False and leaves pressed_keys and
\* last_gpios as they were.
C3_Idempotent ==
    [][ (s_tick' # s_tick /\ s_args' = s_args)
           => (s_ret' = FALSE /\ pressed_keys' = pressed_keys /\ last_gpios' = last_gpios) ]_vars

\* two keys are down and the last call reported no change
C3_Witness ==
    /\ s_ret = FALSE
    /\ last_gpios = << 0, 4, 64 >>
    /\ s_args = last_gpios
    /\ pressed_keys = { << 1, 2 >>, << 2, 6 >> }

\* the vectors a and b differ in bit c of group g only, which is 0 in a and 1 in b
OneBitRise(a, b, g, c) ==
    /\ \A h \in (0 .. 2) \ { g } : a[h + 1] = b[h + 1]
    /\ ~TestBit(a[g + 1], c)
    /\ b[g + 1] = a[g + 1] + Pow2(c)

\* C4: between two consecutive interpret() calls, when exactly one column bit c
\* of one group g rises, the call returns True and adds exactly (g, c) to
\* pressed_keys; when exactly one bit falls, the call returns True and removes
\* exactly (g, c); for every group 0..2 and column 0..6.
C4_SingleEdge ==
    [][ (s_tick' # s_tick /\ Cardinality({ h \in 1 .. 3 : s_args'[h] # s_args[h] }) = 1) =>
          \A g \in { h \in 0 .. 2 : s_args'[h + 1] # s_args[h + 1] } : \A c \in ColBits :
             /\ OneBitRise(s_args, s_args', g, c) =>
                   /\ s_ret' = TRUE
                   /\ << g, c >> \notin pressed_keys
                   /\ pressed_keys' = pressed_keys \cup { << g, c >> }
             /\ OneBitRise(s_args', s_args, g, c) =>
                   /\ s_ret' = TRUE
                   /\ << g, c >> \in pressed_keys
                   /\ pressed_keys' = pressed_keys \ { << g, c >> } ]_vars

\* after a press and a release of (2, 6) with (0, 0) held: one key is left
C4_Witness ==
    /\ s_ret = TRUE
    /\ s_args = << 1, 0, 0 >>
    /\ pressed_keys = { << 0, 0 >> }
    /\ last_gpios = << 1, 0, 0 >>

---------------------------------------------------------------------------
\* the frame has been decoded: reading, digits, specials are those of gpio_values
Decoded == pc \in { "verdict", "buzzer", "print", "error" }
\* the verdict on the decoded frame has been given
Judged == pc \in { "buzzer", "print", "error" }

\* C5: has_continuity returns false whenever the token set holds OVER, ERROR,
\* CAL or a unit token other than the ohm token (mA, m, V, DC, AC, k, M),
\* whatever the value.
C5_ExcludedTokens ==
    (Judged /\ specials \cap { "OVER", "ERROR", "CAL", "mA", "m", "V", "DC", "AC", "k", "M" } # {})
        => cont = FALSE

\* the positions of the frame whose snapshot has the decimal-point bit set
DpPositions == { i \in 0 .. 7 : PDP \subseteq gpio_values[i + 1] }

\* the number written by the digits of positions from..to, most significant first
RECURSIVE DigitsNumber(_, _, _)
DigitsNumber(dg, from, to) ==
    IF from > to THEN 0
    ELSE DigitsNumber(dg, from, to - 1) * 10 + dg[to + 1]

\* the segment lines of a position of the frame
SegsAt(i) == gpio_values[i + 1] \cap SEGMENT_MASK

\* C6: when the decimal point is asserted at exactly one position p of 1..6, the
\* value has the digits d1..dp as its integer part and d(p+1)..d6 as its
\* fraction, with the sign shown at position 1; the frame
\* [blank, +1, 2, 3, 4, 5, 6, blank] with the point at 3 gives +123.456.
C6_DecimalPlacement ==
    Decoded =>
      /\ \A p \in 1 .. 6 :
           (DpPositions \cap (1 .. 6) = { p }) =>
              /\ reading.exp >= 6 - p
              /\ reading.mag \div Pow10(reading.exp) = DigitsNumber(digits, 1, p)
              /\ reading.mag % Pow10(reading.exp)
                    = DigitsNumber(digits, p + 1, 6) * Pow10(reading.exp - (6 - p))
              /\ (SegsAt(1) \in { PA \cup PC, PC }) => reading.sign = -1
              /\ (SegsAt(1) \in { PA \cup PB \cup PC, PB \cup PC }) => reading.sign = 1
      /\ ( /\ SegsAt(0) = {} /\ SegsAt(7) = {}
           /\ SegsAt(1) = PA \cup PB \cup PC
           /\ \A i \in 2 .. 6 : SegsAt(i) = SEGMENT_LOOKUP[i + 1]
           /\ DpPositions = { 3 } ) =>
              /\ reading.sign = 1
              /\ reading.mag \div Pow10(reading.exp) = 123
              /\ (reading.mag % Pow10(reading.exp)) * 1000 = 456 * Pow10(reading.exp)

\* the frame [blank, +1, 2, 3, 4, 5, 6, blank] with the point at 3, decoded
C6_Witness ==
    /\ pc = "verdict"
    /\ SegsAt(0) = {} /\ SegsAt(7) = {}
    /\ SegsAt(1) = PA \cup PB \cup PC
    /\ \A i \in 2 .. 6 : SegsAt(i) = SEGMENT_LOOKUP[i + 1]
    /\ DpPositions = { 3 }
    /\ digits = << 0, 1, 2, 3, 4, 5, 6, 0 >>
    /\ reading = [ sign |-> 1, mag |-> 1234560, exp |-> 4 ]

\* the fold total = total*10 + |digit| over positions 1..6, from 0
RECURSIVE FoldTimes10Plus(_, _, _)
FoldTimes10Plus(dg, dn, total) ==
    IF dn > 6 THEN total
    ELSE FoldTimes10Plus(dg, dn + 1, total * 10 + Abs(dg[dn + 1]))

\* a / 10^x = b / 10^y
DecEq(a, x, b, y) ==
    IF x >= y THEN a = b * Pow10(x - y) ELSE a * Pow10(y - x) = b

\* the sign shown at position 1: minus for the patterns without segment B
SignShown == IF gpio_values[2] \cap (PB \cup PC) = PC THEN -1 ELSE 1

\* C7 as stated: the value is the fold total = total*10 + |digit| of positions
\* 1..6, divided by 10^(7 - p) and multiplied by the sign.
C7_FoldScale7 ==
    Decoded =>
      /\ DecEq(reading.mag, reading.exp,
               FoldTimes10Plus(digits, 1, 0), 7 - decimal_point_position)
      /\ reading.sign = SignShown

\* C7, amended: the value is the fold total = total*10 + |digit| of positions
\* 1..6, divided by 10^(6 - p) and multiplied by the sign, p being the
\* decimal-point position (0 when none); positions 0 and 7 do not enter.
C7_FoldScale6 ==
    Decoded =>
      /\ DecEq(reading.mag, reading.exp,
               FoldTimes10Plus(digits, 1, 0), 6 - decimal_point_position)
      /\ reading.sign = SignShown

\* a frame with no decimal point, "8" at positions 0 and 7 and -134567 between
C7_Witness ==
    /\ pc = "verdict"
    /\ decimal_point_position = 0
    /\ digits = << 8, 1, 3, 4, 5, 6, 7, 8 >>
    /\ reading = [ sign |-> -1, mag |-> 1345670, exp |-> 7 ]

\* C10: the main loop never reaches an error state.
C10_NoError == pc # "error"

---------------------------------------------------------------------------
\* C8: for every position other than 1, read_digit returns d when the reading
\* masked to the segment bits is the 7-segment pattern of d (d in 0..9, the ten
\* patterns pairwise distinct), and the default 0 for every other pattern; bits
\* outside the segment mask never change the result.
C8_ReadDigit ==
    /\ \A d, e \in 0 .. 9 : SEGMENT_LOOKUP[d + 1] = SEGMENT_LOOKUP[e + 1] => d = e
    /\ (t_fn = "read_digit" /\ t_ret # -1 /\ t_arg[1] # 1) =>
          LET segs == t_arg[2] \cap SEGMENT_MASK
          IN  /\ \A d \in 0 .. 9 : segs = SEGMENT_LOOKUP[d + 1] => t_ret = d
              /\ (\A d \in 0 .. 9 : segs # SEGMENT_LOOKUP[d + 1]) => t_ret = 0

\* a reading of position 5 showing "9" with every bit outside the mask set
C8_Witness ==
    /\ t_fn = "read_digit"
    /\ t_arg = << 5, SEGMENT_LOOKUP[10] \cup Not32(SEGMENT_MASK) >>
    /\ t_ret = 9

\* C9: rl_decode(rl_encode(v)) = v for every v in 0..127, the encoding taken as
\* a 32-bit word; each column bit has its own matrix-return pin: the encoded
\* word has exactly the pins of the set columns low.
C9_RoundTrip ==
    (t_fn = "rl_decode" /\ t_ret # -1) =>
        /\ t_ret = t_arg[1]
        /\ \A c \in ColBits :
              TestBit(t_arg[1], c) <=>
                 (<< RL0, RL1, RL2, RL3, RL4, RL5, RL6 >>[c + 1] \cap t_mid = {})
        /\ Cardinality(RL_MASK) = 7

C9_Witness ==
    t_fn = "rl_decode" /\ t_arg = << 85 >> /\ t_ret = 85 /\ t_mid \cap RL_MASK = RL1 \cup RL3 \cup RL5

---------------------------------------------------------------------------
\* the slots 0 .. n-1 in order
FirstSlots(n) == [ i \in 1 .. n |-> i - 1 ]

\* C11: within one sampler call the eight slots are written once each, in the
\* order 0..7, and slot i is written only after a port read of that call has
\* shown strobe Gi asserted, whatever the pace of the meter.
C11_SlotOrder ==
    /\ [] /\ pc \in { "sample", "settle" } => w_log = FirstSlots(digit_number)
          /\ pc \in { "decode", "verdict", "buzzer", "print", "error" } => w_log = FirstSlots(8)
          /\ \A i \in 1 .. Len(w_log) : w_log[i] \in w_seen
    /\ [][ \A i \in 1 .. 8 :
              gpio_values'[i] # gpio_values[i] =>
                 /\ w_log' = Append(w_log, i - 1)
                 /\ (i - 1) \in w_seen ]_vars

\* a second sampler call has returned; its slot 0 was stored after the meter
\* had stepped on to digit 1
C11_Witness ==
    /\ pc = "decode"
    /\ printed # << >>
    /\ w_log = << 0, 1, 2, 3, 4, 5, 6, 7 >>
    /\ G1 \subseteq gpio_values[1]

\* C12: once a digit strobe has failed for good, the sampler call waiting for
\* it never returns: it stays at that slot, and no reading, token set, verdict,
\* buzzer state or printed line is produced or changed any more.
C12_BlocksForever ==
    [][ (h_dead # -1 /\ pc = "sample" /\ digit_number = h_dead) =>
           /\ pc' = "sample"
           /\ digit_number' = digit_number
           /\ << gpio_values, digits, specials, decimal_point_position, reading,
                 cont, pwm_en, printed, w_log >>' =
              << gpio_values, digits, specials, decimal_point_position, reading,
                 cont, pwm_en, printed, w_log >> ]_vars

\* strobe G3 has failed after a cycle was completed; the sampler has stored
\* slots 0..2 and waits at slot 3 while the meter is at digit 3 and then 5
C12_Witness ==
    /\ h_dead = 3
    /\ pc = "sample" /\ digit_number = 3
    /\ w_log = << 0, 1, 2 >>
    /\ printed # << >>
    /\ h_phase = 5

---------------------------------------------------------------------------
\* the last keypad call was a drive() that found its strobe and wrote
DriveTookEffect == k_op[1] = "drive" /\ g_decode(k_pin) = k_op[2]

\* C13: after any sequence of drive() and release() calls ending with
\* release(), RL_DIR is 1 (read from meter) and the output enable of every
\* line RL0..RL6 is clear.
C13_ReleaseRestores ==
    k_op[1] = "release" =>
       /\ BIT(PIN_RL_DIR) \subseteq gpio_out
       /\ gpio_oe \cap RL_MASK = {}

\* release() has followed a drive() that had pulled a column low: the output
\* register still holds the driven pattern, and the enables are clear
C13_Witness ==
    /\ k_op[1] = "release"
    /\ gpio_out \cap RL_MASK # RL_MASK
    /\ BIT(PIN_RL_OE_n) \subseteq gpio_out
    /\ gpio_oe \cap RL_MASK = {}
    /\ BIT(PIN_RL_DIR) \subseteq gpio_out

\* C15: whenever the firmware is sourcing the return lines (a drive() has taken
\* effect and no release() has followed), the strobe group the meter asserts
\* is the group requested in that drive().
C15_StrobeMatches ==
    DriveTookEffect => g_decode(gpio_in) = k_op[2]

\* C16: after a drive() made on a matching strobe and until release(), RL_DIR
\* is 0 (firmware to meter), the output enables of RL0..RL6 are set, and the
\* outputs RL0..RL6 are low exactly for the columns of the requested vector.
C16_DrivenState ==
    DriveTookEffect =>
       /\ gpio_out \cap BIT(PIN_RL_DIR) = {}
       /\ RL_MASK \subseteq gpio_oe
       /\ rl_decode(gpio_out) = k_op[3]

---------------------------------------------------------------------------
\* C14: the reading, the token set and the verdict of a cycle are those of the
\* eight snapshots captured in that cycle alone: whatever digits, tokens,
\* decimal-point position and verdicts earlier frames left behind, the cycle
\* yields what a decode of its snapshots from a cleared state yields.
C14_FrameOnly ==
    Decoded =>
       \E r \in { decode_frame(gpio_values, {}) } :
          /\ reading = r.value
          /\ specials = r.specials
          /\ digits = r.digits
          /\ Judged => cont = has_continuity(r.value, r.specials)

\* a frame with OVER judged after an earlier frame with another value was
\* judged true and printed
C14_Witness ==
    /\ pc = "buzzer"
    /\ Len(printed) = 4 /\ printed[4] = TRUE /\ printed[2] # reading
    /\ "OVER" \in specials
    /\ cont = FALSE

---------------------------------------------------------------------------
\* the highest position of 1..6 whose snapshot has the decimal-point bit, else 0
HighestDp ==
    LET inside == DpPositions \cap (1 .. 6)
    IN  IF inside = {} THEN 0 ELSE CHOOSE p \in inside : \A q \in inside : q <= p

\* the frame with the decimal-point bit cleared in the snapshots of positions 0 and 7
WithoutOuterDp(gv) == [ i \in 1 .. 8 |-> IF i \in { 1, 8 } THEN gv[i] \ PDP ELSE gv[i] ]

\* C17: the decimal-point position of a frame is the highest position of 1..6
\* whose snapshot has the decimal-point bit, 0 when there is none; the bit in
\* the snapshots of positions 0 and 7 changes neither the position nor the
\* value, and at position 7 yields only the "4 WIRE" token.
C17_DpPosition ==
    Decoded =>
       /\ decimal_point_position = HighestDp
       /\ reading.exp = 7 - HighestDp
       /\ \E r \in { decode_frame(WithoutOuterDp(gpio_values), {}) } :
             /\ r.dpp = decimal_point_position
             /\ r.value = reading
             /\ r.specials = specials \ { "4 WIRE" }
       /\ "4 WIRE" \in specials <=> PDP \subseteq gpio_values[8]

\* a frame with the decimal-point bit at positions 4 and 7, decoded
C17_Witness ==
    /\ pc = "verdict"
    /\ DpPositions = { 4, 7 }
    /\ decimal_point_position = 4
    /\ reading.exp = 3
    /\ "4 WIRE" \in specials

---------------------------------------------------------------------------
\* C18: after any sequence of interpret() calls from the empty scanner state,
\* pressed_keys is exactly the set of pairs (g, c), g in 0..2 and c in 0..6,
\* whose bit c is 1 in the retained vector last_gpios[g].
C18_KeysMatchVectors ==
    pressed_keys = { k \in (0 .. 2) \X ColBits : TestBit(last_gpios[k[1] + 1], k[2]) }

\* key (2, 6) alone is down after a call that reported a change
C18_Witness ==
    /\ s_ret = TRUE
    /\ last_gpios = << 0, 0, 64 >>
    /\ pressed_keys = { << 2, 6 >> }

\* the unit tokens position 7 of the frame gives
UnitTokens7 == read_specials(7, gpio_values[8]) \cap { "mA", "DC", "AC", "M", "k", "OHM" }

\* C19: for a frame on the plain ohm range (position 7 gives the ohm token and
\* no other unit token), without OVER, ERROR or CAL and with a value at or
\* below 10.0, the verdict is true whichever rate indicator position 1 shows.
C19_RateIndependent ==
    ( /\ Judged
      /\ UnitTokens7 = { "OHM" }
      /\ specials \cap { "OVER", "ERROR", "CAL" } = {}
      /\ reading.sign * reading.mag <= 10 * Pow10(reading.exp) )
        => cont = TRUE

\* C20: after the buzzer step of every cycle the PWM slice of the buzzer is
\* enabled when the verdict is true and disabled when it is false; a true
\* verdict followed by a false one leaves the buzzer off.
C20_BuzzerFollowsVerdict ==
    pc \in { "print", "error" } => (cont <=> 6 \in pwm_en)

===========================================================================
